---- MODULE Spec2Model ----
(***************************************************************************)
(* Taskline: the version metadata protocol.                                *)
(*                                                                         *)
(*   src/src/lib.rs                 Version, TasklineMetadata (library)    *)
(*   src/taskline-bump/src/main.rs  the bump tool                          *)
(*                                                                         *)
(* Text is a sequence of one-character strings.  A u32 is a pair           *)
(* <<hi, lo>> of 16-bit limbs (value hi * 65536 + lo), so that the real    *)
(* 32-bit boundary 4294967295 = <<65535, 65535>> is part of the model.     *)
(***************************************************************************)
EXTENDS Integers, Sequences, FiniteSets, TLC

(***************************************************************************)
(* Characters and text                                                     *)
(***************************************************************************)
LF == "\n"
CR == "\r"

Digits == <<"0", "1", "2", "3", "4", "5", "6", "7", "8", "9">>

IsDigit(c) == \E i \in 1..Len(Digits) : Digits[i] = c

\* byte - b'0'
DigitVal(c) == (CHOOSE i \in 1..Len(Digits) : Digits[i] = c) - 1

StartsWith(s, p) == Len(s) >= Len(p) /\ SubSeq(s, 1, Len(p)) = p

\* s[n..] of Rust: the text after its first n characters
Skip(s, n) == SubSeq(s, n + 1, Len(s))

\* the literal "@Taskline codename " (19 bytes)
CODENAME_PREFIX ==
    <<"@", "T", "a", "s", "k", "l", "i", "n", "e", " ",
      "c", "o", "d", "e", "n", "a", "m", "e", " ">>

\* the literal "@Taskline version " (18 bytes)
PREFIX ==
    <<"@", "T", "a", "s", "k", "l", "i", "n", "e", " ",
      "v", "e", "r", "s", "i", "o", "n", " ">>

(***************************************************************************)
(* u32 arithmetic on two 16-bit limbs                                      *)
(***************************************************************************)
Limb == 65536

U32Zero == <<0, 0>>
U32One  == <<0, 1>>
U32Max  == <<Limb - 1, Limb - 1>>

IsU32(x) == /\ x \in Seq(Nat) /\ Len(x) = 2
            /\ x[1] < Limb /\ x[2] < Limb

U32Less(a, b) == a[1] < b[1] \/ (a[1] = b[1] /\ a[2] < b[2])

\* x + 1 in 32 bits: the wrapped value and whether the addition overflowed
AddOne(x) ==
    LET lo == x[2] + 1
        hi == x[1] + (lo \div Limb)
    IN  [val |-> <<hi % Limb, lo % Limb>>, ovf |-> hi >= Limb]

\* num * 10 + d in 32 bits: the wrapped value and whether a step overflowed
MulTenAdd(num, d) ==
    LET lo == num[2] * 10 + d
        hi == num[1] * 10 + (lo \div Limb)
    IN  [val |-> <<hi % Limb, lo % Limb>>, ovf |-> hi >= Limb]

\* x / 10 and x % 10
DivTen(x) ==
    LET t == (x[1] % 10) * Limb + x[2]
    IN  [quot |-> <<x[1] \div 10, t \div 10>>, rem |-> t % 10]

RECURSIVE FmtDigits(_)
FmtDigits(x) ==
    IF x = U32Zero THEN <<>>
    ELSE LET d == DivTen(x) IN Append(FmtDigits(d.quot), Digits[d.rem + 1])

\* Display for u32 ("{}"): decimal, no padding, "0" for zero
FmtU32(x) == IF x = U32Zero THEN <<"0">> ELSE FmtDigits(x)

\* str::parse::<u32>: an optional leading "+", then one or more ASCII digits,
\* checked for overflow in every build.  Err is modelled as the value NoU32.
NoU32 == <<>>

RECURSIVE ParseDigits(_, _)
ParseDigits(s, acc) ==
    IF s = <<>> THEN acc
    ELSE IF ~IsDigit(Head(s)) THEN NoU32
    ELSE LET r == MulTenAdd(acc, DigitVal(Head(s)))
         IN  IF r.ovf THEN NoU32 ELSE ParseDigits(Tail(s), r.val)

ParseU32(s) ==
    LET body == IF s # <<>> /\ Head(s) = "+" THEN Tail(s) ELSE s
    IN  IF body = <<>> THEN NoU32 ELSE ParseDigits(body, U32Zero)

(***************************************************************************)
(* Option and Result: None / Err is the empty sequence, Some(x) / Ok(x) a  *)
(* one-element sequence                                                    *)
(***************************************************************************)
None == <<>>
Some(x) == <<x>>
IsSome(o) == o # <<>>
Unwrap(o) == o[1]

(***************************************************************************)
(* src/src/lib.rs: Version                                                 *)
(***************************************************************************)
\* Version::new
Version(major, minor, patch) ==
    [major |-> major, minor |-> minor, patch |-> patch]

\* derive(PartialOrd, Ord): lexicographic in field order
VersionLess(a, b) ==
    \/ U32Less(a.major, b.major)
    \/ a.major = b.major /\ U32Less(a.minor, b.minor)
    \/ a.major = b.major /\ a.minor = b.minor /\ U32Less(a.patch, b.patch)

\* str::split('.'): the pieces between the dots, empty pieces included
RECURSIVE SplitDot(_, _)
SplitDot(s, cur) ==
    IF s = <<>> THEN <<cur>>
    ELSE IF Head(s) = "." THEN <<cur>> \o SplitDot(Tail(s), <<>>)
    ELSE SplitDot(Tail(s), Append(cur, Head(s)))

\* Version::parse: Ok(version) or Err
VersionParse(version_str) ==
    IF ~StartsWith(version_str, <<"v">>) THEN None
    ELSE LET parts == SplitDot(Skip(version_str, 1), <<>>)
         IN  IF Len(parts) # 3 THEN None
             ELSE LET major == ParseU32(parts[1])
                      minor == ParseU32(parts[2])
                      patch == ParseU32(parts[3])
                  IN  IF major = NoU32 \/ minor = NoU32 \/ patch = NoU32
                      THEN None
                      ELSE Some(Version(major, minor, patch))

\* `x + 1` on u32: with overflow checks (debug profile) an overflow panics,
\* without them (release profile) it wraps.  None is the panic.
Incr(x, overflow_checks) ==
    LET r == AddOne(x)
    IN  IF r.ovf /\ overflow_checks THEN None ELSE Some(r.val)

\* Version::bump_patch / bump_minor / bump_major: Some(version), None = panic
bump_patch(v, overflow_checks) ==
    LET n == Incr(v.patch, overflow_checks)
    IN  IF n = None THEN None ELSE Some(Version(v.major, v.minor, Unwrap(n)))

bump_minor(v, overflow_checks) ==
    LET n == Incr(v.minor, overflow_checks)
    IN  IF n = None THEN None ELSE Some(Version(v.major, Unwrap(n), U32Zero))

bump_major(v, overflow_checks) ==
    LET n == Incr(v.major, overflow_checks)
    IN  IF n = None THEN None ELSE Some(Version(Unwrap(n), U32Zero, U32Zero))

\* "{}.{}.{}"
FmtTriple(v) ==
    FmtU32(v.major) \o <<".">> \o FmtU32(v.minor) \o <<".">> \o FmtU32(v.patch)

\* a Display that writes the version as the bump tool writes it, without "v"
VersionDisplay_NoPrefix(v) == FmtTriple(v)

\* impl Display for Version: "v{}.{}.{}"
VersionDisplay(v) == <<"v">> \o FmtTriple(v)

(***************************************************************************)
(* str::lines: split at "\n"; a line's final "\n", and a "\r" right before *)
(* it, are not part of the line; no empty last line after a final "\n"     *)
(***************************************************************************)
StripCR(l) ==
    IF l # <<>> /\ l[Len(l)] = CR THEN SubSeq(l, 1, Len(l) - 1) ELSE l

\* the positions of the line feeds of s, and the k-th of them
LineFeeds(s) == {i \in 1..Len(s) : s[i] = LF}

NthLineFeed(s, k) ==
    CHOOSE p \in LineFeeds(s) : Cardinality({q \in LineFeeds(s) : q <= p}) = k

Lines(content) ==
    LET n     == Cardinality(LineFeeds(content))
        last  == IF n = 0 THEN 0 ELSE NthLineFeed(content, n)
        count == IF last < Len(content) THEN n + 1 ELSE n
    IN  [k \in 1..count |->
            LET from == IF k = 1 THEN 1 ELSE NthLineFeed(content, k - 1) + 1
            IN  IF k <= n
                THEN StripCR(SubSeq(content, from, NthLineFeed(content, k) - 1))
                ELSE SubSeq(content, from, Len(content))]

(***************************************************************************)
(* src/src/lib.rs: TasklineMetadata                                        *)
(***************************************************************************)
Metadata(codename, version) == [codename |-> codename, version |-> version]

\* one iteration of the loop of TasklineMetadata::parse
MetaStep(meta, line) ==
    IF StartsWith(line, CODENAME_PREFIX)
    THEN Metadata(Skip(line, Len(CODENAME_PREFIX)), meta.version)
    ELSE IF StartsWith(line, PREFIX)
    THEN LET r == VersionParse(Skip(line, Len(PREFIX)))
         IN  IF IsSome(r) THEN Metadata(meta.codename, Some(Unwrap(r)))
             ELSE meta
    ELSE meta

RECURSIVE MetaFold(_, _)
MetaFold(meta, ls) ==
    IF ls = <<>> THEN meta ELSE MetaFold(MetaStep(meta, Head(ls)), Tail(ls))

\* TasklineMetadata::parse
MetadataParse(content) == MetaFold(Metadata(<<>>, None), Lines(content))

\* a to_header that puts no line feed between the codename and version lines
to_header_OneLine(meta) ==
    IF IsSome(meta.version)
    THEN CODENAME_PREFIX \o meta.codename
         \o PREFIX \o VersionDisplay(Unwrap(meta.version)) \o <<LF, LF>>
    ELSE CODENAME_PREFIX \o meta.codename \o <<LF, LF>>

\* TasklineMetadata::to_header
to_header(meta) ==
    IF IsSome(meta.version)
    THEN CODENAME_PREFIX \o meta.codename \o <<LF>>
         \o PREFIX \o VersionDisplay(Unwrap(meta.version)) \o <<LF, LF>>
    ELSE CODENAME_PREFIX \o meta.codename \o <<LF, LF>>

(***************************************************************************)
(* src/taskline-bump/src/main.rs: the bump tool                            *)
(***************************************************************************)
\* "--fmt", the long option `#[arg(long)] fmt` declares
LongFmt == <<"-", "-", "f", "m", "t">>

\* Args::parse, as clap derives it from struct Args: one positional
\* argument, filename, and one option with a value, --fmt <FMT> or
\* --fmt=<FMT>, both required and neither repeatable.  Some(Args), or None
\* when clap prints its error and ends the process.
RECURSIVE ArgsScan(_, _, _)
ArgsScan(argv, filename, fmt) ==
    IF argv = <<>>
    THEN IF IsSome(filename) /\ IsSome(fmt)
         THEN Some([filename |-> Unwrap(filename), fmt |-> Unwrap(fmt)])
         ELSE None
    ELSE IF Head(argv) = LongFmt
    THEN IF Len(argv) < 2 \/ IsSome(fmt) THEN None
         ELSE ArgsScan(Tail(Tail(argv)), filename, Some(argv[2]))
    ELSE IF StartsWith(Head(argv), LongFmt \o <<"=">>)
    THEN IF IsSome(fmt) THEN None
         ELSE ArgsScan(Tail(argv), filename, Some(Skip(Head(argv), Len(LongFmt) + 1)))
    ELSE IF StartsWith(Head(argv), <<"-">>) /\ Len(Head(argv)) > 1
    THEN None
    ELSE IF IsSome(filename) THEN None
    ELSE ArgsScan(Tail(argv), Some(Head(argv)), fmt)

ArgsParse(argv) == ArgsScan(argv, None, None)

(***************************************************************************)
(* src/src/main.rs: the dispatcher                                         *)
(***************************************************************************)
\* the word the dispatcher passes for its BumpType
TypeWord(bt) ==
    IF bt = "Major" THEN <<"m", "a", "j", "o", "r">>
    ELSE IF bt = "Minor" THEN <<"m", "i", "n", "o", "r">>
    ELSE <<"p", "a", "t", "c", "h">>

\* main, Commands::Bump: the arguments given to Command::new("taskline-bump")
ForwardedArgs(filename, bump_type) ==
    IF bump_type = <<>> THEN <<filename>>
    ELSE <<filename, TypeWord(bump_type[1])>>

(***************************************************************************)
(* src/taskline-bump/src/main.rs: the bump tool, continued                 *)
(***************************************************************************)
\* a match of the three kind strings that ignores the case of the x
from_str_fast_AnyCase(s) ==
    LET f == [i \in 1..Len(s) |-> IF s[i] = "X" THEN "x" ELSE s[i]]
    IN  IF f = <<".", ".", "x">> THEN <<"Patch">>
        ELSE IF f = <<".", "x", ".">> THEN <<"Minor">>
        ELSE IF f = <<"x", ".", ".">> THEN <<"Major">>
        ELSE <<>>

\* BumpType::from_str_fast: Some(kind) for "..x", ".x.", "x..", else None
from_str_fast(s) ==
    IF s = <<".", ".", "x">> THEN Some("Patch")
    ELSE IF s = <<".", "x", ".">> THEN Some("Minor")
    ELSE IF s = <<"x", ".", ".">> THEN Some("Major")
    ELSE None

\* the `for &byte in version_part` loop of parse_version_fast and the test
\* after it.  parts is the array, part_idx counts the dots seen, num is the
\* segment being read.  `num * 10 + digit` panics on overflow when the build
\* checks overflow and wraps when it does not.
RECURSIVE ScanVersion(_, _, _, _, _)
ScanVersion(bytes, parts, part_idx, num, overflow_checks) ==
    IF bytes = <<>> \/ (~IsDigit(Head(bytes)) /\ Head(bytes) # ".")
    THEN [panic |-> FALSE,
          res   |-> IF part_idx = 2 THEN Some(<<parts[1], parts[2], num>>)
                    ELSE None]
    ELSE IF Head(bytes) = "."
    THEN IF part_idx >= 2 THEN [panic |-> FALSE, res |-> None]
         ELSE ScanVersion(Tail(bytes), [parts EXCEPT ![part_idx + 1] = num],
                          part_idx + 1, U32Zero, overflow_checks)
    ELSE LET r == MulTenAdd(num, DigitVal(Head(bytes)))
         IN  IF r.ovf /\ overflow_checks THEN [panic |-> TRUE, res |-> None]
             ELSE ScanVersion(Tail(bytes), parts, part_idx, r.val,
                              overflow_checks)

\* the shortest value the length test lets through, "1.2.3"
MinValueLen == 5

\* parse_version_fast: [panic, res], res = Some(<<major, minor, patch>>) or None
parse_version_fast(line, overflow_checks) ==
    IF Len(line) < Len(PREFIX) + MinValueLen THEN [panic |-> FALSE, res |-> None]
    ELSE IF ~StartsWith(line, PREFIX) THEN [panic |-> FALSE, res |-> None]
    ELSE ScanVersion(Skip(line, Len(PREFIX)), <<U32Zero, U32Zero, U32Zero>>,
                     0, U32Zero, overflow_checks)

\* a scan in which the last matching line, not the first, gives the version
RECURSIVE ScanLines_LastMatch(_, _, _)
ScanLines_LastMatch(ls, i, overflow_checks) ==
    IF i >= Len(ls)
    THEN [panic |-> FALSE, current_version |-> <<U32Zero, U32Zero, U32Zero>>,
          version_line_index |-> <<>>]
    ELSE LET r    == parse_version_fast(ls[i + 1], overflow_checks)
             rest == ScanLines_LastMatch(ls, i + 1, overflow_checks)
         IN  IF r.panic \/ rest.panic
             THEN [panic |-> TRUE,
                   current_version |-> <<U32Zero, U32Zero, U32Zero>>,
                   version_line_index |-> <<>>]
             ELSE IF rest.version_line_index # <<>> THEN rest
             ELSE IF r.res # <<>>
             THEN [panic |-> FALSE, current_version |-> r.res[1],
                   version_line_index |-> <<i>>]
             ELSE rest

\* main, the scan `for (i, line) in content.lines().enumerate()`, from line i
\* (0-based) on: the first line parse_version_fast matches gives the working
\* version and its index; lines after it are not parsed.
RECURSIVE ScanLines(_, _, _)
ScanLines(ls, i, overflow_checks) ==
    IF i >= Len(ls)
    THEN [panic |-> FALSE, current_version |-> <<U32Zero, U32Zero, U32Zero>>,
          version_line_index |-> None]
    ELSE LET r == parse_version_fast(ls[i + 1], overflow_checks)
         IN  IF r.panic
             THEN [panic |-> TRUE,
                   current_version |-> <<U32Zero, U32Zero, U32Zero>>,
                   version_line_index |-> None]
             ELSE IF IsSome(r.res)
             THEN [panic |-> FALSE, current_version |-> Unwrap(r.res),
                   version_line_index |-> Some(i)]
             ELSE ScanLines(ls, i + 1, overflow_checks)

\* main, `let new_version = match bump_type`: Some(triple), None = panic
NewVersion(bump_type, cv, overflow_checks) ==
    IF bump_type = "Patch"
    THEN LET n == Incr(cv[3], overflow_checks)
         IN  IF n = None THEN None ELSE Some(<<cv[1], cv[2], Unwrap(n)>>)
    ELSE IF bump_type = "Minor"
    THEN LET n == Incr(cv[2], overflow_checks)
         IN  IF n = None THEN None ELSE Some(<<cv[1], Unwrap(n), U32Zero>>)
    ELSE LET n == Incr(cv[1], overflow_checks)
         IN  IF n = None THEN None ELSE Some(<<Unwrap(n), U32Zero, U32Zero>>)

\* "{}.{}.{}" of a tuple
FmtTuple(t) == FmtU32(t[1]) \o <<".">> \o FmtU32(t[2]) \o <<".">> \o FmtU32(t[3])

\* main, the version line: "@Taskline version " then "{}.{}.{}"
VersionLine(nv) == PREFIX \o FmtTuple(nv)

\* Vec::insert(1, x)
InsertAt1(ls, x) == <<ls[1], x>> \o SubSeq(ls, 2, Len(ls))

\* an edit that always pushes a missing version line to the end
EditLines_AlwaysPush(ls, index, version_line) ==
    IF IsSome(index) THEN [ls EXCEPT ![Unwrap(index) + 1] = version_line]
    ELSE Append(ls, version_line)

\* an edit that puts a missing version line over line 1 instead of before it
EditLines_Overwrite(ls, index, version_line) ==
    IF IsSome(index) THEN [ls EXCEPT ![Unwrap(index) + 1] = version_line]
    ELSE IF Len(ls) >= 2 THEN [ls EXCEPT ![2] = version_line]
    ELSE Append(ls, version_line)

\* main, `match version_line_index`: replace in place, or insert / push
EditLines(ls, index, version_line) ==
    IF IsSome(index) THEN [ls EXCEPT ![Unwrap(index) + 1] = version_line]
    ELSE IF Len(ls) >= 2 THEN InsertAt1(ls, version_line)
    ELSE Append(ls, version_line)

\* main, `match version_line_index`: the index the version line is put at
EditIndex(ls, index) ==
    IF IsSome(index) THEN Unwrap(index)
    ELSE IF Len(ls) >= 2 THEN 1
    ELSE Len(ls)

\* main, the join loop: "\n" before every line but the first
RECURSIVE JoinLines(_)
JoinLines(ls) ==
    IF ls = <<>> THEN <<>>
    ELSE IF Len(ls) = 1 THEN ls[1]
    ELSE ls[1] \o <<LF>> \o JoinLines(Tail(ls))

\* position of the last "." of a file name, 0 when it has none
LastDot(name) ==
    LET dots == {i \in 1..Len(name) : name[i] = "."}
    IN  IF dots = {} THEN 0 ELSE CHOOSE i \in dots : \A j \in dots : j <= i

\* a stem that ends at the first "." after the first character
file_stem_FirstDot(name) ==
    LET dots == {i \in 2..Len(name) : name[i] = "."}
    IN  IF dots = {} THEN name
        ELSE SubSeq(name, 1, (CHOOSE i \in dots : \A j \in dots : i <= j) - 1)

\* Path::file_stem of a bare file name
file_stem(name) ==
    LET d == LastDot(name)
    IN  IF d <= 1 THEN name ELSE SubSeq(name, 1, d - 1)

\* Path::extension of a bare file name
extension(name) ==
    LET d == LastDot(name)
    IN  IF d <= 1 THEN None ELSE Some(Skip(name, d))

\* main, new_filename: "{stem}_v{}.{}.{}.{ext}" or "{stem}_v{}.{}.{}"
new_filename(name, nv) ==
    LET ext == extension(name)
    IN  IF IsSome(ext)
        THEN file_stem(name) \o <<"_", "v">> \o FmtTuple(nv) \o <<".">>
             \o Unwrap(ext)
        ELSE file_stem(name) \o <<"_", "v">> \o FmtTuple(nv)

(***************************************************************************)
(* src/taskline-init/src/main.rs: the init tool                            *)
(***************************************************************************)
\* the `while i < len` loop of validate_version and the two tests after it;
\* i is the 1-based position of the next byte.  TRUE is Ok(()), FALSE Err.
RECURSIVE ValidateScan(_, _, _, _)
ValidateScan(bytes, i, dot_count, has_digits_in_current_part) ==
    IF i > Len(bytes)
    THEN dot_count = 2 /\ has_digits_in_current_part
    ELSE IF bytes[i] = "."
    THEN IF ~has_digits_in_current_part THEN FALSE
         ELSE IF dot_count + 1 > 2 THEN FALSE
         ELSE ValidateScan(bytes, i + 1, dot_count + 1, FALSE)
    ELSE IF IsDigit(bytes[i])
    THEN ValidateScan(bytes, i + 1, dot_count, TRUE)
    ELSE FALSE

MinVersionLen == 5

\* validate_version: TRUE is Ok(()), FALSE is Err
validate_version(version) ==
    IF Len(version) < MinVersionLen THEN FALSE
    ELSE IF version[1] # "v" THEN FALSE
    ELSE ValidateScan(version, 2, 0, FALSE)

Extension == <<".", "t", "s", "k", "l", "n">>

\* main, filename_with_extension: "{filename}.{ver}.tskln" or
\* "{filename}.tskln"
TargetName(filename, version) ==
    IF IsSome(version)
    THEN filename \o <<".">> \o Unwrap(version) \o Extension
    ELSE filename \o Extension

\* main, header: the version text is written as it was given
InitHeader(filename, version) ==
    IF IsSome(version)
    THEN CODENAME_PREFIX \o filename \o <<LF>>
         \o PREFIX \o Unwrap(version) \o <<LF, LF>>
    ELSE CODENAME_PREFIX \o filename \o <<LF, LF>>

\* an existence test that never finds the file
Exists_Never(dir, path) == FALSE

\* Path::exists, in the directory dir
Exists(dir, path) == path \in DOMAIN dir

(***************************************************************************)
(* Inputs                                                                  *)
(***************************************************************************)
MaxLines == 2
MaxBumps == 2

\* values after "@Taskline version ": the bump tool's own form, the stored
\* header form, the largest u32 in every segment, one past the largest u32,
\* a value with a segment missing, a value with text after the third segment
ValuePlain  == <<"1", ".", "2", ".", "3">>
ValueStored == <<"v", "1", ".", "2", ".", "3">>
ValueMax ==
    <<"4", "2", "9", "4", "9", "6", "7", "2", "9", "5", ".",
      "4", "2", "9", "4", "9", "6", "7", "2", "9", "5", ".",
      "4", "2", "9", "4", "9", "6", "7", "2", "9", "5">>
ValueOver ==
    <<"4", "2", "9", "4", "9", "6", "7", "2", "9", "6", ".", "0", ".", "0">>
ValueShort == <<"1", ".", "2">>
ValueTail  == <<"1", ".", "2", ".", "3", "x">>

Values == {ValuePlain, ValueStored, ValueMax}

CodenameLine == CODENAME_PREFIX \o <<"d">>
BodyLine == <<"/", "/", "b">>

LinePool == {CodenameLine, <<>>} \cup {PREFIX \o v : v \in Values}

\* how a file's lines are terminated
Styles == {[eol |-> <<LF>>, last |-> FALSE],
           [eol |-> <<LF>>, last |-> TRUE],
           [eol |-> <<CR, LF>>, last |-> TRUE]}

RECURSIVE Render(_, _)
Render(ls, style) ==
    IF ls = <<>> THEN <<>>
    ELSE IF Len(ls) = 1
    THEN ls[1] \o (IF style.last THEN style.eol ELSE <<>>)
    ELSE ls[1] \o style.eol \o Render(Tail(ls), style)

\* the scenarios of the tool's tests: codename, version, blank, body
ScenarioLines ==
    {<<CodenameLine, PREFIX \o v, <<>>, BodyLine>> : v \in {ValuePlain, ValueStored}}
    \cup {<<CodenameLine, PREFIX \o v>> : v \in {ValueOver, ValueShort, ValueTail}}
    \cup {<<CodenameLine, <<>>, BodyLine>>}
    \cup {<<PREFIX \o ValuePlain, <<>>, <<>>>>}

LineSeqs == UNION {[1..n -> LinePool] : n \in 0..MaxLines} \cup ScenarioLines

Contents == {Render(ls, st) : ls \in LineSeqs, st \in Styles}

ScriptName == <<"s", ".", "t", "s", "k", "l", "n">>

\* the script's name when the bumps begin: with an extension, or without
ScriptNames == {ScriptName, <<"s">>}

\* what another file of the directory holds
OtherContent == <<"o">>

\* the other files of the directory when the bumps begin: none, or, next to
\* an empty script, one whose name is the name a first patch release of the
\* script n would take
Neighbours(n, c) ==
    {<<>>} \cup
    IF c = <<>>
    THEN {new_filename(n, <<U32Zero, U32Zero, U32One>>) :> OtherContent}
    ELSE {}

Fmts == {<<".", ".", "x">>, <<".", "x", ".">>, <<"x", ".", ".">>,
         <<".", ".", "X">>}

\* what the dispatcher's `bump_type: Option<BumpType>` can hold
DispatcherTypes == {None, Some("Major"), Some("Minor"), Some("Patch")}

ZeroVersion == <<U32Zero, U32Zero, U32Zero>>

(***************************************************************************)
(* Inputs of the library functions                                         *)
(***************************************************************************)
MaxTextLen == 6
MaxMetaLines == 2
MaxCalls == 2

\* u32 samples: 0, 9, 65535, 4294967294, 4294967295
U32Samples == {U32Zero, <<0, 9>>, <<0, Limb - 1>>, <<Limb - 1, Limb - 2>>, U32Max}

SampleVersions == {Version(a, b, c) : a, b, c \in U32Samples}

TextAlphabet == {"v", "1", ".", "+"}

\* texts the tests and the documentation name, and texts around the u32 range
SpecialTexts ==
    { <<"v", "1", ".", "2", ".", "3">>,
      <<"v", "0", ".", "0", ".", "1">>,
      <<"1", ".", "2", ".", "3">>,
      <<"v", "1", ".", "2">>,
      <<"v", "1", ".", "2", ".", "3", ".", "4">>,
      <<"v", "a", ".", "b", ".", "c">>,
      <<"v", "+", "1", ".", "2", ".", "3">>,
      <<"v", "-", "1", ".", "2", ".", "3">>,
      <<"v", "1", ".", "2", ".", "3", " ">>,
      <<"v", "0", "1", ".", "2", ".", "3">>,
      <<"V", "1", ".", "2", ".", "3">>,
      <<"v">> \o ValueMax,
      <<"v">> \o ValueOver,
      <<"v", "0", "0">> \o ValueMax }

VersionTexts ==
    UNION {[1..n -> TextAlphabet] : n \in 0..MaxTextLen} \cup SpecialTexts

\* header lines: two codenames, two versions, a version Version::parse
\* rejects, a blank line
MetaLinePool ==
    { CODENAME_PREFIX \o <<"d">>,
      CODENAME_PREFIX \o <<"e">>,
      PREFIX \o ValueStored,
      PREFIX \o <<"v", "2", ".", "0", ".", "0">>,
      PREFIX \o ValuePlain,
      <<>> }

MetaContents ==
    {Render(ls, st) :
        ls \in UNION {[1..n -> MetaLinePool] : n \in 0..MaxMetaLines}
               \cup ScenarioLines,
        st \in Styles}

Codenames ==
    { <<>>, <<"d">>, <<"d", " ", "e">>, <<"d", CR>>, <<"d", CR, "e">>,
      <<"d", LF, "e">>, <<"d", LF>>,
      <<"d", LF>> \o CODENAME_PREFIX \o <<"e">>,
      <<"d", LF>> \o PREFIX \o <<"v", "2", ".", "0", ".", "0">> }

Headers ==
    {Metadata(c, v) : c \in Codenames,
                      v \in {None} \cup {Some(x) : x \in SampleVersions}}

MaxValueLen == 6

\* lines for parse_version_fast: the prefix and every value of up to
\* MaxValueLen characters made of a digit, a dot and a letter; the values
\* named above and those of the tool's tests; lines without the prefix
ScanValues ==
    UNION {[1..n -> {"1", ".", "x"}] : n \in 0..MaxValueLen}
    \cup {ValuePlain, ValueStored, ValueMax, ValueOver, ValueShort, ValueTail,
          <<"1", "0", ".", "2", "0", ".", "3", "0">>,
          <<"0", ".", "0", ".", "1">>,
          <<"1", ".", "0", ".", "0", ".", "1">>,
          <<"a", ".", "b", ".", "c">>}

ScanLinePool ==
    {PREFIX \o v : v \in ScanValues}
    \cup {<<>>,
          ValuePlain,
          CODENAME_PREFIX \o ValuePlain,
          <<" ">> \o PREFIX \o ValuePlain,
          <<"@", "t", "a", "s", "k", "l", "i", "n", "e", " ", "v", "e", "r",
            "s", "i", "o", "n", " ">> \o ValuePlain,
          <<"@", "T", "a", "s", "k", "l", "i", "n", "e", " ", "v", "e", "r",
            "s", "i", "o", "n">> \o ValuePlain}

LibInputs ==
    [t : {"line"}, x : ScanLinePool]
    \cup [t : {"text"}, x : VersionTexts]
    \cup [t : {"version"}, x : SampleVersions]
    \cup [t : {"content"}, x : MetaContents]
    \cup [t : {"header"}, x : Headers]

NoInput == [t |-> "none", x |-> <<>>]

(***************************************************************************)
(* State                                                                   *)
(***************************************************************************)
VARIABLES
    overflow_checks,     \* the build: TRUE debug profile, FALSE release
    fs,                  \* the directory: file name -> content
    pc,                  \* where the bump process is
    args,                \* Args {filename, fmt}
    bump_type,           \* Option<BumpType>
    dispatched,          \* the dispatcher's bump_type, when it ran the tool
    content,             \* main: content as read
    lines,               \* main: lines, after the edit
    current_version,     \* main: current_version
    version_line_index,  \* main: version_line_index
    new_version,         \* main: new_version
    updated_content,     \* main: updated_content
    reported,            \* the success line printed: Some([version, path])
    chain,               \* versions printed by successive bumps, each of
                         \* the file the bump before it produced
    written,             \* where the last bump of the chain left the
                         \* version line: Some([index, count]), the line's
                         \* index and the line count of the file written
    bumps,               \* invocations so far
    lib_input,           \* the value the library calls start from
    lib_calls,           \* the library calls made: [op, arg, res]
    init_pc,             \* where the init process is
    arguments,           \* init main: arguments, the program name first
    filename_with_extension,  \* init main: filename_with_extension
    file,                \* init main: file, the handle File::create gave
    init_error,          \* what the init process printed before exit(1)
    inits                \* init invocations so far

vars == <<overflow_checks, fs, pc, args, bump_type, dispatched, content, lines,
          current_version, version_line_index, new_version, updated_content,
          reported, chain, written, bumps, lib_input, lib_calls, init_pc, arguments,
          filename_with_extension, file, init_error, inits>>

tool == <<overflow_checks, fs, pc, args, bump_type, dispatched, content, lines,
          current_version, version_line_index, new_version, updated_content,
          reported, chain, written, bumps>>

lib == <<lib_input, lib_calls>>

init == <<init_pc, arguments, filename_with_extension, file, init_error, inits>>

locals == <<content, lines, current_version, version_line_index, new_version,
            updated_content>>

\* the bump process before its first invocation
InitProcess ==
    /\ pc = "idle"
    /\ args = [filename |-> <<>>, fmt |-> <<>>]
    /\ bump_type = None
    /\ dispatched = None
    /\ content = <<>>
    /\ lines = <<>>
    /\ current_version = ZeroVersion
    /\ version_line_index = None
    /\ new_version = ZeroVersion
    /\ updated_content = <<>>
    /\ reported = None
    /\ chain = <<>>
    /\ written = None
    /\ bumps = 0

\* the init process before its first invocation
InitIdle ==
    /\ init_pc = "idle"
    /\ arguments = <<>>
    /\ filename_with_extension = <<>>
    /\ file = None
    /\ init_error = "none"
    /\ inits = 0

Init ==
    /\ overflow_checks \in BOOLEAN
    /\ \E c \in Contents, n \in ScriptNames :
          \E others \in Neighbours(n, c) : fs = (n :> c) @@ others
    /\ InitProcess
    /\ lib_input = NoInput
    /\ lib_calls = <<>>
    /\ InitIdle

\* a session is a run of bumps, ended by the first one that fails
Stopped == pc \in {"idle", "done"}

\* a new process given the argument list argv: Args::parse, which ends the
\* process when it rejects the list, and from_str_fast, before any file is
\* touched
Begin(argv, by) ==
    /\ Stopped
    /\ bumps < MaxBumps
    /\ bumps' = bumps + 1
    /\ dispatched' = by
    /\ \E parsed \in {ArgsParse(argv)} :
          IF IsSome(parsed)
          THEN /\ args' = Unwrap(parsed)
               /\ bump_type' = from_str_fast(Unwrap(parsed).fmt)
               /\ pc' = IF IsSome(from_str_fast(Unwrap(parsed).fmt))
                        THEN "read" ELSE "failed"
               /\ chain' = IF IsSome(reported)
                               /\ Unwrap(reported).path = Unwrap(parsed).filename
                            THEN chain ELSE <<>>
               /\ written' = IF IsSome(reported)
                                 /\ Unwrap(reported).path = Unwrap(parsed).filename
                              THEN written ELSE None
          ELSE /\ args' = [filename |-> <<>>, fmt |-> <<>>]
               /\ bump_type' = None
               /\ pc' = "failed"
               /\ chain' = <<>>
               /\ written' = None
    /\ content' = <<>>
    /\ lines' = <<>>
    /\ current_version' = ZeroVersion
    /\ version_line_index' = None
    /\ new_version' = ZeroVersion
    /\ updated_content' = <<>>
    /\ reported' = None
    /\ UNCHANGED <<overflow_checks, fs, lib, init>>

\* the tool run directly: taskline-bump <filename> --fmt <fmt>
Invoke(filename, fmt) == Begin(<<filename, LongFmt, fmt>>, None)

\* the tool run by the dispatcher: taskline bump <filename> [<type>]
Dispatch(filename, type) == Begin(ForwardedArgs(filename, type), type)

\* fs::read_to_string fails: the file is not there, or it is there and
\* cannot be read (no permission, not UTF-8)
ReadFail ==
    /\ pc = "read"
    /\ pc' = "failed"
    /\ chain' = <<>>
    /\ written' = None
    /\ UNCHANGED <<overflow_checks, fs, args, bump_type, dispatched, locals, reported, bumps, lib, init>>

\* main between the read and the write: the scan, the new version, the edit
\* and the join.  [panic, current_version, version_line_index, new_version,
\* lines, updated_content]; after a panic the later fields keep their
\* initial values.
Transform(text, kind, checks) ==
    LET ls   == Lines(text)
        scan == ScanLines(ls, 0, checks)
        nv   == IF scan.panic THEN None
                ELSE NewVersion(kind, scan.current_version, checks)
        ed   == IF nv = None THEN <<>>
                ELSE EditLines(ls, scan.version_line_index,
                               VersionLine(Unwrap(nv)))
    IN  [panic              |-> nv = None,
         current_version    |-> scan.current_version,
         version_line_index |-> scan.version_line_index,
         new_version        |-> IF nv = None THEN ZeroVersion ELSE Unwrap(nv),
         lines              |-> ed,
         updated_content    |-> JoinLines(ed)]

\* fs::read_to_string succeeds, then the transform
ReadAndTransform ==
    /\ pc = "read"
    /\ args.filename \in DOMAIN fs
    /\ content' = fs[args.filename]
    /\ \E t \in {Transform(fs[args.filename], Unwrap(bump_type), overflow_checks)} :
          /\ current_version' = t.current_version
          /\ version_line_index' = t.version_line_index
          /\ new_version' = t.new_version
          /\ lines' = t.lines
          /\ updated_content' = t.updated_content
          /\ pc' = IF t.panic THEN "panicked" ELSE "write"
          /\ chain' = IF t.panic THEN <<>> ELSE chain
          /\ written' = IF t.panic THEN None ELSE written
    /\ UNCHANGED <<overflow_checks, fs, args, bump_type, dispatched, reported, bumps, lib, init>>

\* a write that does not wait for the read
Write_BeforeRead ==
    /\ pc \in {"read", "write"}
    /\ args.filename \in DOMAIN fs
    /\ fs' = [fs EXCEPT ![args.filename] = updated_content]
    /\ pc' = "rename"
    /\ UNCHANGED <<overflow_checks, args, bump_type, dispatched, locals, reported, chain, written,
                   bumps, lib, init>>

\* fs::write succeeds
Write ==
    /\ pc = "write"
    /\ fs' = [fs EXCEPT ![args.filename] = updated_content]
    /\ pc' = "rename"
    /\ UNCHANGED <<overflow_checks, args, bump_type, dispatched, locals, reported, chain, written,
                   bumps, lib, init>>

\* fs::write fails: the file could not be opened (left as it was), or it was
\* opened, which truncates it, and the write stopped after k characters
WriteFail ==
    /\ pc = "write"
    /\ \/ UNCHANGED fs
       \/ \E k \in {0, Len(updated_content) \div 2} :
              fs' = [fs EXCEPT ![args.filename] = SubSeq(updated_content, 1, k)]
    /\ pc' = "failed"
    /\ chain' = <<>>
    /\ written' = None
    /\ UNCHANGED <<overflow_checks, args, bump_type, dispatched, locals, reported, bumps, lib, init>>

\* fs::rename succeeds (a file already at the new path is replaced), println
Rename ==
    /\ pc = "rename"
    /\ LET new_path == new_filename(args.filename, new_version)
       IN  /\ fs' = [n \in (DOMAIN fs \ {args.filename}) \cup {new_path} |->
                        IF n = new_path THEN fs[args.filename] ELSE fs[n]]
           /\ reported' = Some([version |-> new_version, path |-> new_path])
    /\ chain' = Append(chain, new_version)
    /\ written' = Some([index |-> EditIndex(Lines(content), version_line_index),
                         count |-> Len(Lines(updated_content))])
    /\ pc' = "done"
    /\ UNCHANGED <<overflow_checks, args, bump_type, dispatched, locals, bumps, lib, init>>

\* a failed rename that has already taken the file away from its path
RenameFail_LosesFile ==
    /\ pc = "rename"
    /\ pc' = "failed"
    /\ fs' = [n \in DOMAIN fs \ {args.filename} |-> fs[n]]
    /\ chain' = <<>>
    /\ written' = None
    /\ UNCHANGED <<overflow_checks, args, bump_type, dispatched, locals, reported, bumps, lib, init>>

\* fs::rename fails: the file stays where it was
RenameFail ==
    /\ pc = "rename"
    /\ pc' = "failed"
    /\ chain' = <<>>
    /\ written' = None
    /\ UNCHANGED <<overflow_checks, fs, args, bump_type, dispatched, locals, reported, bumps, lib, init>>

Next ==
    \/ \E f \in DOMAIN fs \cup {ScriptName}, fmt \in Fmts : Invoke(f, fmt)
    \/ \E f \in DOMAIN fs \cup {ScriptName}, type \in DispatcherTypes :
           Dispatch(f, type)
    \/ ReadFail
    \/ ReadAndTransform
    \/ Write
    \/ WriteFail
    \/ Rename
    \/ RenameFail

Spec == Init /\ [][Next]_vars

(***************************************************************************)
(* The library, called on drawn inputs: a call takes the input, or the     *)
(* result of the call before it                                            *)
(***************************************************************************)
InitLib ==
    /\ overflow_checks \in BOOLEAN
    /\ fs = (ScriptName :> <<>>)
    /\ InitProcess
    /\ lib_input \in LibInputs
    /\ lib_calls = <<>>
    /\ InitIdle

\* the value the next call is applied to
Cur == IF lib_calls = <<>> THEN lib_input ELSE lib_calls[Len(lib_calls)].res

Call(op, res) ==
    /\ Len(lib_calls) < MaxCalls
    /\ lib_calls' = Append(lib_calls, [op |-> op, arg |-> Cur.x, res |-> res])
    /\ UNCHANGED <<tool, lib_input, init>>

\* Result<Version, _> and the outcome of a bump as a value to go on with
OfResult(r) ==
    IF IsSome(r) THEN [t |-> "version", x |-> Unwrap(r)]
    ELSE [t |-> "err", x |-> <<>>]

AsTuple(v) == <<v.major, v.minor, v.patch>>

CallVersionParse ==
    /\ Cur.t = "text"
    /\ Call("Version::parse", OfResult(VersionParse(Cur.x)))

CallDisplay ==
    /\ Cur.t = "version"
    /\ Call("Display", [t |-> "text", x |-> VersionDisplay(Cur.x)])

\* the library's bump of a version; `engine` is what the bump tool's own
\* computation gives for the same kind and working version
CallBump(kind) ==
    /\ Cur.t = "version"
    /\ Len(lib_calls) < MaxCalls
    /\ LET r == IF kind = "Patch" THEN bump_patch(Cur.x, overflow_checks)
                ELSE IF kind = "Minor" THEN bump_minor(Cur.x, overflow_checks)
                ELSE bump_major(Cur.x, overflow_checks)
       IN  lib_calls' = Append(lib_calls,
               [op |-> kind, arg |-> Cur.x, res |-> OfResult(r),
                engine |-> NewVersion(kind, AsTuple(Cur.x), overflow_checks)])
    /\ UNCHANGED <<tool, lib_input, init>>

CallMetadataParse ==
    /\ Cur.t = "content"
    /\ Call("TasklineMetadata::parse", [t |-> "header", x |-> MetadataParse(Cur.x)])

CallToHeader ==
    /\ Cur.t = "header"
    /\ Call("to_header", [t |-> "content", x |-> to_header(Cur.x)])

\* parse_version_fast on a line, in the build overflow_checks says
CallScan ==
    /\ Cur.t = "line"
    /\ Call("parse_version_fast",
            [t |-> "scan", x |-> parse_version_fast(Cur.x, overflow_checks)])

\* the init tool's validate_version on a text
CallValidate ==
    /\ Cur.t = "text"
    /\ Call("validate_version", [t |-> "bool", x |-> validate_version(Cur.x)])

NextLib ==
    \/ CallScan
    \/ CallValidate
    \/ CallVersionParse
    \/ CallDisplay
    \/ \E kind \in {"Patch", "Minor", "Major"} : CallBump(kind)
    \/ CallMetadataParse
    \/ CallToHeader

SpecLib == InitLib /\ [][NextLib]_vars

(***************************************************************************)
(* The init tool: a run of invocations in one directory                    *)
(***************************************************************************)
MaxInits == 2

ProgramName == <<"i", "n", "i", "t">>

InitNames == {<<"d">>, <<"d", ".", "v", "1", ".", "2", ".", "3">>}

\* version arguments: well-formed ones (plain, with a leading zero, with the
\* largest u32), one whose first component is one past the largest u32, and
\* one of each malformed kind
InitVersionTexts ==
    {<<"v", "1", ".", "2", ".", "3">>,
     <<"v", "0", "1", ".", "2", ".", "3">>,
     <<"v">> \o ValueMax,
     <<"v">> \o ValueOver,
     <<"1", ".", "2", ".", "3">>,
     <<"V", "1", ".", "2", ".", "3">>,
     <<"v", "1", ".", "2">>,
     <<"v", "1", ".", "2", ".">>,
     <<"v", "1", ".", "2", ".", "3", ".", "4">>,
     <<"v", "1", ".", ".", "3">>,
     <<"v", ".", "2", ".", "3">>,
     <<"v", "1", ".", "2", ".", "3", "a">>,
     <<"v", "+", "1", ".", "2", ".", "3">>,
     <<"v", "1", ".", "2", ".", "3", LF>>,
     <<>>}

InitArgLists ==
    {<<ProgramName>>}
    \cup {<<ProgramName, n>> : n \in InitNames}
    \cup {<<ProgramName, n, v>> : n \in InitNames, v \in InitVersionTexts}
    \cup {<<ProgramName, <<"d">>, <<"v", "1", ".", "2", ".", "3">>, <<"x">>>>}

\* a directory that is empty, or holds a file an earlier init could have
\* made, with other content
InitDirs ==
    {[n \in {} |-> <<>>],
     (TargetName(<<"d">>, None) :> <<"o", "l", "d">>)}

InitInit ==
    /\ overflow_checks = FALSE
    /\ fs \in InitDirs
    /\ InitProcess
    /\ lib_input = NoInput
    /\ lib_calls = <<>>
    /\ InitIdle

\* init main: filename and version, taken from arguments
init_filename == arguments[2]

init_version == IF Len(arguments) = 3 THEN Some(arguments[3]) ELSE None

\* a new process: the argument count, validate_version, the target name
InitStart(argv) ==
    /\ init_pc \in {"idle", "done", "failed"}
    /\ inits < MaxInits
    /\ inits' = inits + 1
    /\ arguments' = argv
    /\ file' = None
    /\ IF Len(argv) < 2 \/ Len(argv) > 3
       THEN /\ init_pc' = "failed"
            /\ init_error' = "usage"
            /\ filename_with_extension' = <<>>
       ELSE IF Len(argv) = 3 /\ ~validate_version(argv[3])
       THEN /\ init_pc' = "failed"
            /\ init_error' = "version"
            /\ filename_with_extension' = <<>>
       ELSE /\ init_pc' = "exists"
            /\ init_error' = "none"
            /\ filename_with_extension' =
                   TargetName(argv[2], IF Len(argv) = 3 THEN Some(argv[3]) ELSE None)
    /\ UNCHANGED <<tool, lib>>

\* Path::exists: abort when the target is there
InitExists ==
    /\ init_pc = "exists"
    /\ IF Exists(fs, filename_with_extension)
       THEN init_pc' = "failed" /\ init_error' = "exists"
       ELSE init_pc' = "create" /\ init_error' = "none"
    /\ UNCHANGED <<tool, lib, arguments, filename_with_extension, file, inits>>

\* File::create succeeds: the file is there and empty, whether it was there
\* before or not
InitCreate ==
    /\ init_pc = "create"
    /\ fs' = [n \in DOMAIN fs \cup {filename_with_extension} |->
                 IF n = filename_with_extension THEN <<>> ELSE fs[n]]
    /\ file' = Some(filename_with_extension)
    /\ init_pc' = "write"
    /\ UNCHANGED <<overflow_checks, pc, args, bump_type, dispatched, locals, reported,
                   chain, written, bumps, lib, arguments, filename_with_extension,
                   init_error, inits>>

\* File::create fails
InitCreateFail ==
    /\ init_pc = "create"
    /\ init_pc' = "failed"
    /\ init_error' = "create"
    /\ UNCHANGED <<tool, lib, arguments, filename_with_extension, file, inits>>

\* write_all succeeds
InitWrite ==
    /\ init_pc = "write"
    /\ fs' = [fs EXCEPT ![Unwrap(file)] = InitHeader(init_filename, init_version)]
    /\ init_pc' = "done"
    /\ UNCHANGED <<overflow_checks, pc, args, bump_type, dispatched, locals, reported,
                   chain, written, bumps, lib, arguments, filename_with_extension,
                   file, init_error, inits>>

\* write_all fails after k characters
InitWriteFail ==
    /\ init_pc = "write"
    /\ \E k \in {0, Len(InitHeader(init_filename, init_version)) \div 2} :
           fs' = [fs EXCEPT ![Unwrap(file)] =
                      SubSeq(InitHeader(init_filename, init_version), 1, k)]
    /\ init_pc' = "failed"
    /\ init_error' = "write"
    /\ UNCHANGED <<overflow_checks, pc, args, bump_type, dispatched, locals, reported,
                   chain, written, bumps, lib, arguments, filename_with_extension,
                   file, inits>>

NextInit ==
    \/ \E argv \in InitArgLists : InitStart(argv)
    \/ InitExists
    \/ InitCreate
    \/ InitCreateFail
    \/ InitWrite
    \/ InitWriteFail

SpecInit == InitInit /\ [][NextInit]_vars

(***************************************************************************)
(* Vocabulary of the properties                                            *)
(***************************************************************************)
\* y is the natural number x + 1, both being u32
IsSucc(x, y) ==
    \/ x[2] < Limb - 1 /\ y = <<x[1], x[2] + 1>>
    \/ x[2] = Limb - 1 /\ x[1] < Limb - 1 /\ y = <<x[1] + 1, 0>>

\* nv is kind applied to cv, as the bump rules state it
KindApplied(kind, cv, nv) ==
    \/ kind = "Patch" /\ nv[1] = cv[1] /\ nv[2] = cv[2] /\ IsSucc(cv[3], nv[3])
    \/ kind = "Minor" /\ nv[1] = cv[1] /\ IsSucc(cv[2], nv[2]) /\ nv[3] = U32Zero
    \/ kind = "Major" /\ IsSucc(cv[1], nv[1]) /\ nv[2] = U32Zero /\ nv[3] = U32Zero

\* the component kind increments
Bumped(kind, cv) ==
    IF kind = "Patch" THEN cv[3] ELSE IF kind = "Minor" THEN cv[2] ELSE cv[1]

TupleLess(a, b) ==
    VersionLess(Version(a[1], a[2], a[3]), Version(b[1], b[2], b[3]))

\* the bump process has read the file and finished its in-memory transform
Transformed == pc \in {"write", "rename", "done"}

\* the lines of the file as read
OldLines == Lines(content)

\* ls without its k-th element
RemoveAt(ls, k) == SubSeq(ls, 1, k - 1) \o SubSeq(ls, k + 1, Len(ls))

\* pairs of successive library calls, the second on the result of the first
Then(i, op1, op2) ==
    /\ i + 1 <= Len(lib_calls)
    /\ lib_calls[i].op = op1
    /\ lib_calls[i + 1].op = op2

(***************************************************************************)
(* C1                                                                      *)
(***************************************************************************)
\* C1: for a script whose only version line is in the stored form
\* "@Taskline version v<M>.<m>.<p>", the bump takes (M, m, p) as the working
\* version, its new version is the kind applied to (M, m, p), the line at
\* that index becomes the new version line, and the line count is unchanged.
C1_StoredFormIsBumpedInPlace ==
    Transformed =>
        \A i \in 1..Len(OldLines), v \in SampleVersions \cup {Version(<<0, 1>>, <<0, 2>>, <<0, 3>>)} :
            ( /\ OldLines[i] = PREFIX \o VersionDisplay(v)
              /\ \A j \in 1..Len(OldLines) :
                     j # i => ~StartsWith(OldLines[j], PREFIX) )
            => /\ current_version = AsTuple(v)
               /\ KindApplied(Unwrap(bump_type), AsTuple(v), new_version)
               /\ lines[i] = VersionLine(new_version)
               /\ Len(lines) = Len(OldLines)

(***************************************************************************)
(* C2                                                                      *)
(***************************************************************************)
\* C2: for every version v, bump_patch / bump_minor / bump_major return v
\* with the component incremented by one and the lower ones reset to 0, and
\* the bump tool's own computation gives the same triple.
C2_BumpRules ==
    \A i \in 1..Len(lib_calls) :
        lib_calls[i].op \in {"Patch", "Minor", "Major"}
        => /\ lib_calls[i].res.t = "version"
           /\ KindApplied(lib_calls[i].op, AsTuple(lib_calls[i].arg),
                          AsTuple(lib_calls[i].res.x))
           /\ lib_calls[i].engine = Some(AsTuple(lib_calls[i].res.x))

(***************************************************************************)
(* C3                                                                      *)
(***************************************************************************)
\* C3: in a run of successive bumps, each of the file the bump before it
\* produced, every version produced is strictly greater, in (major, minor,
\* patch) order, than the one produced before it.
C3_SuccessiveBumpsIncrease ==
    \A i \in 1..(Len(chain) - 1) : TupleLess(chain[i], chain[i + 1])

(***************************************************************************)
(* C4                                                                      *)
(***************************************************************************)
\* C4: a bump that would increment a component holding 4294967295 fails: it
\* never gets to write or report a version.
C4_OverflowFails ==
    Transformed => Bumped(Unwrap(bump_type), current_version) # U32Max

(***************************************************************************)
(* C5                                                                      *)
(***************************************************************************)
\* a non-empty text of decimal digits whose value is at most 4294967295:
\* after its leading zeros it has fewer than ten digits, or ten digits that
\* are not after "4294967295" in dictionary order
MaxDigits == <<"4", "2", "9", "4", "9", "6", "7", "2", "9", "5">>

IsU32Text(seg) ==
    /\ seg # <<>>
    /\ \A i \in 1..Len(seg) : IsDigit(seg[i])
    /\ LET nz == {i \in 1..Len(seg) : seg[i] # "0"}
           sig == IF nz = {} THEN <<>>
                  ELSE SubSeq(seg, CHOOSE i \in nz : \A j \in nz : i <= j, Len(seg))
       IN  \/ Len(sig) < Len(MaxDigits)
           \/ /\ Len(sig) = Len(MaxDigits)
              /\ \/ sig = MaxDigits
                 \/ \E i \in 1..Len(sig) :
                        /\ DigitVal(sig[i]) < DigitVal(MaxDigits[i])
                        /\ \A j \in 1..(i - 1) : sig[j] = MaxDigits[j]

\* "v", then three such texts separated by dots
IsVersionText(s) ==
    /\ s # <<>>
    /\ s[1] = "v"
    /\ \E d1, d2 \in 2..Len(s) :
           /\ d1 < d2
           /\ s[d1] = "."
           /\ s[d2] = "."
           /\ IsU32Text(SubSeq(s, 2, d1 - 1))
           /\ IsU32Text(SubSeq(s, d1 + 1, d2 - 1))
           /\ IsU32Text(SubSeq(s, d2 + 1, Len(s)))

\* C5: Version::parse accepts a text if and only if it is "v" followed by
\* exactly three dot-separated segments, each a non-empty text of decimal
\* digits whose value fits in 32 bits.
C5_ParseAcceptsExactlyVersionTexts ==
    \A i \in 1..Len(lib_calls) :
        lib_calls[i].op = "Version::parse"
        => (lib_calls[i].res.t = "version" <=> IsVersionText(lib_calls[i].arg))

(***************************************************************************)
(* C6                                                                      *)
(***************************************************************************)
\* C6: Version::parse applied to the Display text of a version returns
\* exactly that version.
C6_ParseOfDisplay ==
    \A i \in 1..Len(lib_calls) :
        Then(i, "Display", "Version::parse")
        => lib_calls[i + 1].res = [t |-> "version", x |-> lib_calls[i].arg]

\* the Display text of a version holding 4294967295 and 0 has been parsed
C6_Witness ==
    /\ Then(1, "Display", "Version::parse")
    /\ lib_calls[1].arg.major = U32Max
    /\ lib_calls[1].arg.patch = U32Zero
    /\ lib_calls[2].res.t = "version"

(***************************************************************************)
(* C7                                                                      *)
(***************************************************************************)
\* the indices of the lines of ls that begin with prefix, and the least
WithPrefix(ls, prefix) == {i \in 1..Len(ls) : StartsWith(ls[i], prefix)}

First(S) == CHOOSE i \in S : \A j \in S : i <= j

\* C7: TasklineMetadata::parse takes the codename from the first line that
\* begins with "@Taskline codename " and decides the version by the first
\* line that begins with "@Taskline version "; later lines with the same
\* prefix never change the result.
C7_FirstMatchWins ==
    \A i \in 1..Len(lib_calls) :
        lib_calls[i].op = "TasklineMetadata::parse"
        => LET ls == Lines(lib_calls[i].arg)
               cs == WithPrefix(ls, CODENAME_PREFIX)
               vs == WithPrefix(ls, PREFIX)
           IN  /\ cs # {} =>
                     lib_calls[i].res.x.codename =
                         Skip(ls[First(cs)], Len(CODENAME_PREFIX))
               /\ vs # {} =>
                     lib_calls[i].res.x.version =
                         VersionParse(Skip(ls[First(vs)], Len(PREFIX)))

(***************************************************************************)
(* C8                                                                      *)
(***************************************************************************)
\* C8: for every header h, TasklineMetadata::parse(to_header(h)) returns the
\* codename and the optional version of h.
C8_ParseOfHeader ==
    \A i \in 1..Len(lib_calls) :
        Then(i, "to_header", "TasklineMetadata::parse")
        => lib_calls[i + 1].res.x = lib_calls[i].arg

\* a codename that fits on a header line: no line feed in it, and no
\* carriage return at its end
OneLine(codename) ==
    /\ \A k \in 1..Len(codename) : codename[k] # LF
    /\ (codename # <<>> => codename[Len(codename)] # CR)

\* C8, amended: for every header h whose codename contains no line feed and
\* does not end with a carriage return, TasklineMetadata::parse(to_header(h))
\* returns the codename and the optional version of h.
C8_ParseOfOneLineHeader ==
    \A i \in 1..Len(lib_calls) :
        (Then(i, "to_header", "TasklineMetadata::parse")
            /\ OneLine(lib_calls[i].arg.codename))
        => lib_calls[i + 1].res.x = lib_calls[i].arg

\* a header with a codename of several words and a version has been
\* rendered and parsed back
C8_Witness ==
    /\ Then(1, "to_header", "TasklineMetadata::parse")
    /\ lib_calls[1].arg.codename = <<"d", " ", "e">>
    /\ IsSome(lib_calls[1].arg.version)
    /\ Unwrap(lib_calls[1].arg.version).minor = U32Max

(***************************************************************************)
(* C9                                                                      *)
(***************************************************************************)
\* C9: when the scan matched no line, the working version is (0,0,0), the
\* new version is 0.0.1 / 0.1.0 / 1.0.0 for patch / minor / major, and the
\* edit adds exactly one line, the new version line: at index 1 when the
\* file has at least 2 lines, as the new last line otherwise.
C9_AbsentVersionInserted ==
    (Transformed /\ version_line_index = None)
    => /\ current_version = ZeroVersion
       /\ new_version =
              (IF Unwrap(bump_type) = "Patch" THEN <<U32Zero, U32Zero, U32One>>
               ELSE IF Unwrap(bump_type) = "Minor" THEN <<U32Zero, U32One, U32Zero>>
               ELSE <<U32One, U32Zero, U32Zero>>)
       /\ Len(lines) = Len(OldLines) + 1
       /\ IF Len(OldLines) >= 2
          THEN /\ lines[1] = OldLines[1]
               /\ lines[2] = VersionLine(new_version)
               /\ SubSeq(lines, 3, Len(lines)) = SubSeq(OldLines, 2, Len(OldLines))
          ELSE /\ lines[Len(lines)] = VersionLine(new_version)
               /\ SubSeq(lines, 1, Len(OldLines)) = OldLines

\* a minor bump of a file of three lines, none of them matched, is done
C9_Witness ==
    /\ pc = "done"
    /\ version_line_index = None
    /\ Len(OldLines) = 3
    /\ bump_type = Some("Minor")

Spliced(old, new, a, b) ==
    \E p \in 0..(Len(a) - Len(old)) :
        /\ SubSeq(a, p + 1, p + Len(old)) = old
        /\ b = SubSeq(a, 1, p) \o new \o SubSeq(a, p + Len(old) + 1, Len(a))

\* an inserted line: the line with a terminator after it, or, put after a
\* last line that had none, with a terminator before it; alone in a file
\* that was empty
InsertedTexts(line, original) ==
    {line \o eol : eol \in {<<LF>>, <<CR, LF>>}}
    \cup {eol \o line : eol \in {<<LF>>, <<CR, LF>>}}
    \cup (IF original = <<>> THEN {line} ELSE {})

\* C11: the content a bump writes back is the content it read, character
\* for character (line terminators, trailing newline and trailing blank
\* line included), except that the text of the version line found is
\* replaced by the new version line, or, when none was found, that the new
\* version line is inserted.
C11_BodyUntouched ==
    Transformed
    => IF IsSome(version_line_index)
       THEN Spliced(OldLines[Unwrap(version_line_index) + 1],
                    VersionLine(new_version), content, updated_content)
       ELSE \E x \in InsertedTexts(VersionLine(new_version), content) :
                Spliced(<<>>, x, content, updated_content)

(***************************************************************************)
(* C12                                                                     *)
(***************************************************************************)
\* the bump has reached its write step and the file is still at its path:
\* before the write, after it, or stopped by a failure of the write or of
\* the rename
AtOrAfterWrite ==
    /\ \/ pc \in {"write", "rename"}
       \/ pc = "failed" /\ lines # <<>>
    /\ args.filename \in DOMAIN fs

\* C12: from the write step of a bump on, also when the write fails, the
\* content at the original path is the complete content read or the
\* complete new content, never an empty or cut one.
C12_WriteIsAllOrNothing ==
    AtOrAfterWrite => fs[args.filename] \in {content, updated_content}

(***************************************************************************)
(* C13                                                                     *)
(***************************************************************************)
\* the path the bump renames to
NewPath == new_filename(args.filename, new_version)

\* C13: a step that leaves the rename step without completing it ends the
\* bump as failed, with nothing reported and the file at its original path
\* holding the complete rewritten content; and in every state of a bump that
\* has read the script, the script is at its old path or at its new path.
C13_RenameFailureKeepsFile ==
    /\ [][(pc = "rename" /\ pc' # "done")
            => /\ pc' = "failed"
               /\ reported' = None
               /\ args.filename \in DOMAIN fs'
               /\ fs'[args.filename] = updated_content]_vars
    /\ [](lines # <<>> => (args.filename \in DOMAIN fs \/ NewPath \in DOMAIN fs))

\* a bump has failed at the rename: the rewritten content, which differs
\* from the content read, is at the original path, and nothing is at the
\* new path
C13_Witness ==
    /\ pc = "failed"
    /\ lines # <<>>
    /\ args.filename \in DOMAIN fs
    /\ fs[args.filename] = updated_content
    /\ updated_content # content
    /\ NewPath \notin DOMAIN fs
    /\ reported = None

(***************************************************************************)
(* C14                                                                     *)
(***************************************************************************)
MaxKindLen == 3

\* the kind strings tried: every text of dots and of x in either case
KindTexts == UNION {[1..n -> {".", "x", "X"}] : n \in 0..MaxKindLen}

Recognised == {s \in KindTexts : IsSome(from_str_fast(s))}

FoldCase(s) == [i \in 1..Len(s) |-> IF s[i] = "X" THEN "x" ELSE s[i]]

\* exactly three kind strings are recognised, none of them in another case
\* than written, and they map to three different kinds (a fact about
\* from_str_fast alone: it is the same in every state, and is evaluated in
\* the states no bump has started from yet)
ThreeKinds ==
    /\ Cardinality(Recognised) = 3
    /\ {Unwrap(from_str_fast(s)) : s \in Recognised} = {"Patch", "Minor", "Major"}
    /\ \A s \in Recognised, t \in KindTexts :
           (t # s /\ FoldCase(t) = FoldCase(s)) => t \notin Recognised

\* C14: a bump whose kind string is not recognised fails at once: the step
\* that starts it ends it as failed with no file content read and the
\* directory as it was, and a process without a kind is never past that
\* point; the kind is there exactly when the string given is a recognised
\* one; exactly three kind strings are recognised, none of them in another
\* case than written, and they map to three different kinds among Patch,
\* Minor, Major.
C14_UnknownKindFailsFirst ==
    /\ [](pc = "idle" => ThreeKinds)
    /\ [][~IsSome(bump_type')
            => (pc' = "failed" /\ fs' = fs /\ content' = <<>>)]_vars
    /\ [](~IsSome(bump_type) => pc \in {"idle", "failed"})
    /\ [](pc # "idle" => (IsSome(bump_type) <=> args.fmt \in Recognised))

\* a second bump, of the file the first produced, was given "..X" and has
\* failed
C14_Witness ==
    /\ pc = "failed"
    /\ ~IsSome(bump_type)
    /\ args.fmt = <<".", ".", "X">>
    /\ args.filename \in DOMAIN fs
    /\ bumps = 2

(***************************************************************************)
(* C15                                                                     *)
(***************************************************************************)
\* name with suffix put before its final extension (the last "." that is not
\* its first character, and what follows it), at its end when it has none
BeforeExtension(name, suffix) ==
    IF \E k \in 2..Len(name) : name[k] = "."
    THEN LET k == CHOOSE i \in 2..Len(name) :
                      /\ name[i] = "."
                      /\ \A j \in (i + 1)..Len(name) : name[j] # "."
         IN  SubSeq(name, 1, k - 1) \o suffix \o SubSeq(name, k, Len(name))
    ELSE name \o suffix

\* C15: after a successful bump of P to (M,m,p), nothing is at P, and the
\* rewritten file is at the path reported, which is P with "_vM.m.p" put
\* before its final extension, or at its end when P has no extension.
C15_RenamedBesideExtension ==
    pc = "done"
    => /\ args.filename \notin DOMAIN fs
       /\ Unwrap(reported).path =
              BeforeExtension(args.filename, <<"_", "v">> \o FmtTuple(new_version))
       /\ Unwrap(reported).path \in DOMAIN fs
       /\ fs[Unwrap(reported).path] = updated_content

\* "s", which has no extension, was bumped to 0.0.1 and became "s_v0.0.1";
\* that file, whose final extension is "1", was bumped to 0.0.2 and is now
\* "s_v0.0_v0.0.2.1"
C15_Witness ==
    /\ pc = "done"
    /\ bumps = 2
    /\ args.filename = <<"s", "_", "v", "0", ".", "0", ".", "1">>
    /\ DOMAIN fs = {<<"s", "_", "v", "0", ".", "0", "_", "v", "0", ".", "0",
                      ".", "2", ".", "1">>}

(***************************************************************************)
(* C16                                                                     *)
(***************************************************************************)
\* C16: an init given a version text is stopped by the validation exactly
\* when the text is not "v" and three dot-separated digit texts that fit in
\* 32 bits; the step that stops it ends the process as failed and leaves
\* the directory as it was.
C16_MalformedVersionRejected ==
    /\ []((init_pc # "idle" /\ Len(arguments) = 3)
            => (init_error = "version" <=> ~IsVersionText(arguments[3])))
    /\ [][init_error' = "version" => (init_pc' = "failed" /\ fs' = fs)]_vars

(***************************************************************************)
(* C17                                                                     *)
(***************************************************************************)
\* C17: an init that finds its target name in the directory ends as failed
\* and leaves the directory as it was; no file leaves the directory; the
\* content of a file changes only while it is the file this process
\* created; and the process creates its file only under a name that was not
\* in the directory.
C17_ExistingTargetKept ==
    /\ [][(init_pc = "exists" /\ filename_with_extension \in DOMAIN fs)
            => (init_pc' = "failed" /\ init_error' = "exists" /\ fs' = fs)]_vars
    /\ [][\A n \in DOMAIN fs :
              /\ n \in DOMAIN fs'
              /\ fs'[n] # fs[n] => file = Some(n)]_vars
    /\ [][(IsSome(file') /\ file' # file) => Unwrap(file') \notin DOMAIN fs]_vars

\* the second init, "d.v1.2.3" with no version, has been stopped because its
\* target is the file the first init, "d" with v1.2.3, wrote, which still
\* holds that header
C17_Witness ==
    /\ init_pc = "failed"
    /\ init_error = "exists"
    /\ inits = 2
    /\ Len(arguments) = 2
    /\ filename_with_extension \in DOMAIN fs
    /\ fs[filename_with_extension] =
           InitHeader(<<"d">>, Some(<<"v", "1", ".", "2", ".", "3">>))

(***************************************************************************)
(* C18                                                                     *)
(***************************************************************************)
\* the (name, version) an init was given, as the library's header value:
\* the version is what Version::parse makes of the version text
GivenMetadata ==
    Metadata(init_filename,
             IF IsSome(init_version) THEN VersionParse(Unwrap(init_version))
             ELSE None)

\* C18: the file a completed init has created holds the codename line, then
\* the version line if and only if a version was given, then one empty
\* line, and nothing else; and that text is to_header of the (name,
\* version) given.
C18_FileIsRenderedHeader ==
    init_pc = "done"
    => /\ fs[filename_with_extension] =
              CODENAME_PREFIX \o init_filename \o <<LF>>
              \o (IF IsSome(init_version)
                  THEN PREFIX \o Unwrap(init_version) \o <<LF>> ELSE <<>>)
              \o <<LF>>
       /\ fs[filename_with_extension] = to_header(GivenMetadata)

(***************************************************************************)
(* C19                                                                     *)
(***************************************************************************)
\* C19: when the dispatcher has run the tool with a type (major, minor or
\* patch), the tool has accepted the arguments it was given and works with
\* the same kind (Major, Minor, Patch).
C19_DispatchedKindIsUsed ==
    IsSome(dispatched) => bump_type = dispatched

(***************************************************************************)
(* C20                                                                     *)
(***************************************************************************)
AllDigits(seg) == seg # <<>> /\ \A i \in 1..Len(seg) : IsDigit(seg[i])

\* three non-empty all-digit segments separated by two dots, nothing else
IsThreeSegments(value) ==
    LET parts == SplitDot(value, <<>>)
    IN  Len(parts) = 3 /\ \A k \in 1..3 : AllDigits(parts[k])

\* the decimal values of the three segments, when each fits in 32 bits
SegmentValues(value) ==
    LET parts == SplitDot(value, <<>>)
        vals  == [k \in 1..3 |-> ParseDigits(parts[k], U32Zero)]
    IN  IF \E k \in 1..3 : vals[k] = NoU32 THEN None ELSE Some(vals)

\* C20: parse_version_fast matches a line if and only if the line is
\* "@Taskline version " followed by three non-empty all-digit segments
\* separated by exactly two dots and nothing more; it then returns the
\* decimal values of the segments (stated here for segments that fit in 32
\* bits); for every other line it returns no match.
C20_ScanGrammar ==
    \A i \in 1..Len(lib_calls) :
        lib_calls[i].op = "parse_version_fast"
        => LET line  == lib_calls[i].arg
               value == Skip(line, Len(PREFIX))
               r     == lib_calls[i].res.x
           IN  IF StartsWith(line, PREFIX) /\ IsThreeSegments(value)
               THEN IsSome(SegmentValues(value))
                    => (~r.panic /\ r.res = SegmentValues(value))
               ELSE ~r.panic /\ r.res = None

(***************************************************************************)
(* C21                                                                     *)
(***************************************************************************)
\* the (1-based) indices of the lines of ls that parse_version_fast matches
MatchingIn(ls) ==
    {i \in 1..Len(ls) : IsSome(parse_version_fast(ls[i], overflow_checks).res)}

\* C21: when lines of the file match, the first of them gives the working
\* version and the index, it is the line replaced, and every later matching
\* line is in the edited lines at its index, as it was.
C21_FirstMatchingLineOnly ==
    Transformed
    => \E old \in {OldLines} : \E m \in {MatchingIn(old)} :
           m # {}
           => \E f \in {First(m)} :
                  /\ version_line_index = Some(f - 1)
                  /\ current_version =
                         Unwrap(parse_version_fast(old[f], overflow_checks).res)
                  /\ Len(lines) = Len(old)
                  /\ lines[f] = VersionLine(new_version)
                  /\ \A j \in m : j # f => lines[j] = old[j]

\* a file of two different version lines, both matching, has been bumped:
\* the first is replaced, the second is in place
C21_Witness ==
    /\ Transformed
    /\ \E old \in {OldLines} :
           /\ MatchingIn(old) = {1, 2}
           /\ old[1] # old[2]
           /\ lines[1] # old[1]
           /\ lines[2] = old[2]

(***************************************************************************)
(* C22                                                                     *)
(***************************************************************************)
\* the order of main: from one position of the process to the next
StepOrder ==
    {<<"idle", "read">>, <<"idle", "failed">>,
     <<"done", "read">>, <<"done", "failed">>,
     <<"read", "write">>, <<"read", "panicked">>, <<"read", "failed">>,
     <<"write", "rename">>, <<"write", "failed">>,
     <<"rename", "done">>, <<"rename", "failed">>}

\* C22: every step of a bump moves the process forward in the order
\* validate kind, read, transform, write, rename; the read step is entered
\* only by a new invocation, so an invocation reads once, and writes and
\* renames at most once; content is read only in the read step; the file's
\* content changes only in the write step, which follows a read that
\* succeeded, and the file's name only in the rename step, which follows a
\* write that succeeded; a failed read leaves the directory as it was.
C22_StepsInOrder ==
    /\ [][/\ <<pc, pc'>> \in StepOrder
          /\ pc' = "read" <=> (bumps' = bumps + 1 /\ IsSome(bump_type'))
          /\ bumps' # bumps => pc \in {"idle", "done"}
          /\ (content' # content /\ bumps' = bumps) => pc = "read"
          /\ fs' # fs => pc \in {"write", "rename"}
          /\ (fs' # fs /\ pc = "write") => DOMAIN fs' = DOMAIN fs
          /\ DOMAIN fs' # DOMAIN fs => (pc = "rename" /\ pc' = "done")
          /\ (pc = "read" /\ pc' = "failed") => fs' = fs]_vars
    /\ [](pc \in {"write", "rename", "done"} => lines # <<>>)
    /\ [](pc = "rename" => (args.filename \in DOMAIN fs
                              /\ fs[args.filename] = updated_content))
    /\ [](pc = "write" => (args.filename \in DOMAIN fs
                             /\ fs[args.filename] = content))

\* a second bump has gone through all its steps: the file it read is at the
\* new path with the new content
C22_Witness ==
    /\ pc = "done"
    /\ bumps = 2
    /\ content # updated_content
    /\ args.filename \notin DOMAIN fs
    /\ fs[Unwrap(reported).path] = updated_content

(***************************************************************************)
(* C23                                                                     *)
(***************************************************************************)
\* the line has the prefix and, in its value, an all-digit segment whose
\* decimal value does not fit in 32 bits
HasOversizedSegment(line) ==
    /\ StartsWith(line, PREFIX)
    /\ LET parts == SplitDot(Skip(line, Len(PREFIX)), <<>>)
       IN  \E k \in 1..Len(parts) :
               AllDigits(parts[k]) /\ ParseDigits(parts[k], U32Zero) = NoU32

\* C23: parse_version_fast given a line with a segment over the largest
\* 32-bit value returns a result, a match or none; it does not panic.
C23_ScanNeverPanics ==
    \A i \in 1..Len(lib_calls) :
        (lib_calls[i].op = "parse_version_fast"
            /\ HasOversizedSegment(lib_calls[i].arg))
        => ~lib_calls[i].res.x.panic

(***************************************************************************)
(* C24                                                                     *)
(***************************************************************************)
\* C24: after a successful bump, TasklineMetadata::parse of the content
\* written gives Some(version), the version the bump reported.
C24_LibraryReadsBumpedFile ==
    pc = "done"
    => MetadataParse(updated_content).version =
           Some(Version(Unwrap(reported).version[1],
                        Unwrap(reported).version[2],
                        Unwrap(reported).version[3]))

(***************************************************************************)
(* C25                                                                     *)
(***************************************************************************)
\* C25: for every text, validate_version succeeds if and only if
\* Version::parse succeeds.
C25_ValidateAgreesWithParse ==
    \A i \in 1..Len(lib_calls) :
        lib_calls[i].op = "validate_version"
        => (lib_calls[i].res.x <=> IsSome(VersionParse(lib_calls[i].arg)))

(***************************************************************************)
(* C26                                                                     *)
(***************************************************************************)
\* C26: a bump never replaces the content of a file other than the one it
\* was given: a file already at the new path keeps its content through the
\* rename step.
C26_OtherFilesKept ==
    [][\A n \in DOMAIN fs :
          (pc # "idle" /\ n # args.filename)
          => (n \in DOMAIN fs' /\ fs'[n] = fs[n])]_vars

(***************************************************************************)
(* C27                                                                     *)
(***************************************************************************)
\* a bump of the file the bump before it produced has read that file
Rescanned == pc = "read" /\ chain # <<>> /\ pc' \in {"write", "panicked"}

\* the scan finds the line the bump before wrote, where it was written and
\* with the version written
RescanFindsWritten ==
    Rescanned
    => /\ current_version' = chain[Len(chain)]
       /\ version_line_index' = Some(Unwrap(written).index)

\* a later bump of the chain applies its kind to the version before it
ChainComposes ==
    (pc = "rename" /\ pc' = "done" /\ chain # <<>>)
    => KindApplied(Unwrap(bump_type), chain[Len(chain)], new_version)

\* a later bump of the chain leaves the line count and the index as they were
CountAndIndexKept ==
    (pc = "rename" /\ pc' = "done" /\ IsSome(written))
    => /\ Unwrap(written').index = Unwrap(written).index
       /\ Unwrap(written').count = Unwrap(written).count

\* C27: the next bump's scan matches the version line a bump wrote, at the
\* same index and with the version written; successive bumps compose the
\* bump functions; after the first bump the line count and the version
\* line's index never change.
C27_SuccessiveBumpsCompose ==
    /\ [][RescanFindsWritten]_vars
    /\ [][ChainComposes]_vars
    /\ [][CountAndIndexKept]_vars

====
